---- MODULE Spec2Model ----
(***************************************************************************)
(* shank-idl: translation of host type descriptors (RustType) to IDL type  *)
(* nodes (IdlType::try_from, idl_type.rs) and derivation of IDL field      *)
(* records from struct fields (IdlField::try_from, idl_field.rs).          *)
(*                                                                         *)
(* Both are pure functions.  The state machine builds a field descriptor   *)
(* step by step (a declared type grown one composite layer at a time, an   *)
(* optional type override) and applies the two conversions to it.          *)
(***************************************************************************)
EXTENDS Naturals, Sequences, FiniteSets, TLC

VARIABLES
    rust_type,      \* the declared type descriptor (StructField::rust_type)
    type_override,  \* Option<RustType>: the type override the field carries
    call,           \* Option: the last conversion applied and its argument
    result          \* that conversion's Result (None before any conversion)

vars == <<rust_type, type_override, call, result>>

----------------------------------------------------------------------------
(* Bounds of the model.                                                    *)

MaxDepth == 2       \* composite layers of a descriptor
MaxInners == 3      \* nested descriptors of one composite
MaxNodes == 4       \* descriptors in one field (declared type and override)

----------------------------------------------------------------------------
(* Option and Result.                                                      *)

None == [some |-> FALSE]
Some(v) == [some |-> TRUE, v |-> v]

Ok(v) == [ok |-> TRUE, val |-> v]
Err(msg, args) == [ok |-> FALSE, err |-> msg, args |-> args]

----------------------------------------------------------------------------
(* The host type descriptor: shank_macro_impl::types::RustType, by kind.   *)

Primitives ==
    {"U8", "I8", "I16", "U16", "I32", "U32", "I64", "U64", "U128", "I128",
     "USize", "Bool"}

StringValues == {"CString", "String", "Str"}

Names == {"Pubkey", "pubkey", "Vault"}

Sizes == {0, 5}

Precisions == {0, 18}

Primitive(p) == [kind |-> "Primitive", prim |-> p]
Value(v) == [kind |-> "Value", val |-> v]
Custom(name) == [kind |-> "Value", val |-> "Custom", name |-> name]
Unit == [kind |-> "Unit"]
Unknown == [kind |-> "Unknown"]
Composite(c, inners) == [kind |-> "Composite", comp |-> c, inners |-> inners]

CompositeKinds ==
    {[c |-> k] : k \in {"Vec", "Option", "Tuple", "HashMap", "BTreeMap",
                        "HashSet", "BTreeSet"}}
    \cup {[c |-> "Array", size |-> n] : n \in Sizes}
    \cup {[c |-> "Decimal", precision |-> p] : p \in Precisions}
    \cup {[c |-> "Custom", name |-> "Wrapper"]}

Leaves ==
    {Primitive(p) : p \in Primitives}
    \cup {Value(v) : v \in StringValues}
    \cup {Custom(n) : n \in Names}
    \cup {Unit, Unknown}

RECURSIVE Depth(_)
Depth(ty) ==
    IF ty.kind # "Composite" THEN 0
    ELSE LET ds == {Depth(ty.inners[i]) : i \in 1..Len(ty.inners)}
         IN 1 + (CHOOSE d \in ds \cup {0} : \A e \in ds : e <= d)

RECURSIVE SumNodes(_, _)
RECURSIVE Nodes(_)
SumNodes(tys, i) ==
    IF i > Len(tys) THEN 0 ELSE Nodes(tys[i]) + SumNodes(tys, i + 1)
Nodes(ty) ==
    IF ty.kind # "Composite" THEN 1 ELSE 1 + SumNodes(ty.inners, 1)

----------------------------------------------------------------------------
(* The IDL type node: enum IdlType.                                        *)

Scalar(t) == [t |-> t]
Defined(name) == [t |-> "Defined", name |-> name]
IdlArray(e, n) == [t |-> "Array", elem |-> e, len |-> n]
IdlOption(e) == [t |-> "Option", elem |-> e]
IdlVec(e) == [t |-> "Vec", elem |-> e]
IdlTuple(es) == [t |-> "Tuple", elems |-> es]
IdlHashMap(k, v) == [t |-> "HashMap", key |-> k, val |-> v]
IdlBTreeMap(k, v) == [t |-> "BTreeMap", key |-> k, val |-> v]
IdlHashSet(e) == [t |-> "HashSet", elem |-> e]
IdlBTreeSet(e) == [t |-> "BTreeSet", elem |-> e]

----------------------------------------------------------------------------
(* IdlType::try_from(RustType), one operator per match arm.                *)

RECURSIVE TryFrom(_)

\* faulty variant: the pointer-sized integer taken as 32 bits wide
PrimitiveArm_USize32(prim) ==
    IF prim = "USize" THEN Scalar("U32") ELSE Scalar(prim)

PrimitiveArm(prim) ==
    CASE prim = "U8" -> Scalar("U8")
      [] prim = "I8" -> Scalar("I8")
      [] prim = "I16" -> Scalar("I16")
      [] prim = "U16" -> Scalar("U16")
      [] prim = "I32" -> Scalar("I32")
      [] prim = "U32" -> Scalar("U32")
      [] prim = "I64" -> Scalar("I64")
      [] prim = "U64" -> Scalar("U64")
      [] prim = "U128" -> Scalar("U128")
      [] prim = "I128" -> Scalar("I128")
      [] prim = "USize" -> Scalar("U64")
      [] prim = "Bool" -> Scalar("Bool")

\* faulty variant: the public-key alias matched without regard to case
ValueArm_AnyCase(ty) ==
    IF ty.val \in {"CString", "String", "Str"} THEN Scalar("String")
    ELSE IF ty.name \in {"Pubkey", "pubkey", "PUBKEY"} THEN Scalar("PublicKey")
    ELSE Defined(ty.name)

ValueArm(ty) ==
    IF ty.val \in {"CString", "String", "Str"} THEN Scalar("String")
    ELSE IF ty.name = "Pubkey" THEN Scalar("PublicKey")
    ELSE Defined(ty.name)

\* faulty variant: no collapse of a sequence of u8 to Bytes
VecArm_NoBytes(inners) ==
    IF Len(inners) >= 1
    THEN LET inner_idl == TryFrom(inners[1])
         IN IF ~inner_idl.ok THEN inner_idl
            ELSE Ok(IdlVec(inner_idl.val))
    ELSE Err("Rust Vec Composite needs inner type", <<>>)

VecArm(inners) ==
    IF Len(inners) >= 1
    THEN LET inner_idl == TryFrom(inners[1])
         IN IF ~inner_idl.ok THEN inner_idl
            ELSE IF inner_idl.val = Scalar("U8") THEN Ok(Scalar("Bytes"))
            ELSE Ok(IdlVec(inner_idl.val))
    ELSE Err("Rust Vec Composite needs inner type", <<>>)

\* faulty variant: the collapse to Bytes applied to arrays of u8 as well
ArrayArm_Bytes(size, inners) ==
    IF Len(inners) >= 1
    THEN LET inner_idl == TryFrom(inners[1])
         IN IF ~inner_idl.ok THEN inner_idl
            ELSE IF inner_idl.val = Scalar("U8") THEN Ok(Scalar("Bytes"))
            ELSE Ok(IdlArray(inner_idl.val, size))
    ELSE Err("Rust Array Composite needs inner type", <<>>)

ArrayArm(size, inners) ==
    IF Len(inners) >= 1
    THEN LET inner_idl == TryFrom(inners[1])
         IN IF ~inner_idl.ok THEN inner_idl
            ELSE Ok(IdlArray(inner_idl.val, size))
    ELSE Err("Rust Array Composite needs inner type", <<>>)

OptionArm(inners) ==
    IF Len(inners) >= 1
    THEN LET inner_idl == TryFrom(inners[1])
         IN IF ~inner_idl.ok THEN inner_idl
            ELSE Ok(IdlOption(inner_idl.val))
    ELSE Err("Rust Option Composite needs inner type", <<>>)

\* faulty variant: elements that fail to translate are left out (filter_map)
RECURSIVE Collect_SkipsFailures(_, _, _)
Collect_SkipsFailures(inners, i, acc) ==
    IF i > Len(inners) THEN Ok(acc)
    ELSE LET r == TryFrom(inners[i])
         IN Collect_SkipsFailures(inners, i + 1,
                                  IF r.ok THEN Append(acc, r.val) ELSE acc)

\* inners.into_iter().map(IdlType::try_from).collect::<Result<Vec<_>>>():
\* the elements in order, or the first failure
RECURSIVE Collect(_, _, _)
Collect(inners, i, acc) ==
    IF i > Len(inners) THEN Ok(acc)
    ELSE LET r == TryFrom(inners[i])
         IN IF ~r.ok THEN r ELSE Collect(inners, i + 1, Append(acc, r.val))

\* faulty variant: a one-element tuple unwrapped to its element
TupleArm_Unwraps(inners) ==
    IF Len(inners) < 1
    THEN Err("Rust Tuple Composite needs at least two inner types", <<>>)
    ELSE IF Len(inners) = 1 THEN TryFrom(inners[1])
    ELSE LET idl_types == Collect(inners, 1, <<>>)
         IN IF ~idl_types.ok THEN idl_types
            ELSE Ok(IdlTuple(idl_types.val))

TupleArm(inners) ==
    IF Len(inners) < 2
    THEN Err("Rust Tuple Composite needs at least two inner types", <<>>)
    ELSE LET idl_types == Collect(inners, 1, <<>>)
         IN IF ~idl_types.ok THEN idl_types
            ELSE Ok(IdlTuple(idl_types.val))

\* faulty variant: a map with more than two nested descriptors rejected
HashMapArm_ExactArity(inners) ==
    IF Len(inners) = 2
    THEN LET inner1_idl == TryFrom(inners[1])
             inner2_idl == TryFrom(inners[2])
         IN IF ~inner1_idl.ok THEN inner1_idl
            ELSE IF ~inner2_idl.ok THEN inner2_idl
            ELSE Ok(IdlHashMap(inner1_idl.val, inner2_idl.val))
    ELSE Err("Rust HashMap Composite needs two inner types", <<>>)

HashMapArm(inners) ==
    IF Len(inners) >= 2
    THEN LET inner1_idl == TryFrom(inners[1])
             inner2_idl == TryFrom(inners[2])
         IN IF ~inner1_idl.ok THEN inner1_idl
            ELSE IF ~inner2_idl.ok THEN inner2_idl
            ELSE Ok(IdlHashMap(inner1_idl.val, inner2_idl.val))
    ELSE Err("Rust HashMap Composite needs two inner types", <<>>)

BTreeMapArm(inners) ==
    IF Len(inners) >= 2
    THEN LET inner1_idl == TryFrom(inners[1])
             inner2_idl == TryFrom(inners[2])
         IN IF ~inner1_idl.ok THEN inner1_idl
            ELSE IF ~inner2_idl.ok THEN inner2_idl
            ELSE Ok(IdlBTreeMap(inner1_idl.val, inner2_idl.val))
    ELSE Err("Rust BTreeMap Composite needs two inner types", <<>>)

HashSetArm(inners) ==
    IF Len(inners) >= 1
    THEN LET inner_idl == TryFrom(inners[1])
         IN IF ~inner_idl.ok THEN inner_idl
            ELSE Ok(IdlHashSet(inner_idl.val))
    ELSE Err("Rust HashSet Composite needs one inner type", <<>>)

BTreeSetArm(inners) ==
    IF Len(inners) >= 1
    THEN LET inner_idl == TryFrom(inners[1])
         IN IF ~inner_idl.ok THEN inner_idl
            ELSE Ok(IdlBTreeSet(inner_idl.val))
    ELSE Err("Rust BTreeSet Composite needs one inner type", <<>>)

\* faulty variant: the first nested descriptor taken whatever the arity, as the
\* containers do
DecimalArm_AnyArity(inners) ==
    IF Len(inners) >= 1
    THEN TryFrom(inners[1])
    ELSE Err("Decimal composite needs one type parameter, got {}",
             <<Len(inners)>>)

DecimalArm(inners) ==
    IF Len(inners) = 1
    THEN TryFrom(inners[1])
    ELSE Err("Decimal composite needs one type parameter, got {}",
             <<Len(inners)>>)

CompositeArm(kind, inners) ==
    CASE kind.c = "Vec" -> VecArm(inners)
      [] kind.c = "Array" -> ArrayArm(kind.size, inners)
      [] kind.c = "Option" -> OptionArm(inners)
      [] kind.c = "Tuple" -> TupleArm(inners)
      [] kind.c = "HashMap" -> HashMapArm(inners)
      [] kind.c = "BTreeMap" -> BTreeMapArm(inners)
      [] kind.c = "HashSet" -> HashSetArm(inners)
      [] kind.c = "BTreeSet" -> BTreeSetArm(inners)
      [] kind.c = "Decimal" -> DecimalArm(inners)
      [] kind.c = "Custom" ->
            Err("Rust Custom Composite IDL type not yet supported", <<>>)

TryFrom(rust_ty) ==
    CASE rust_ty.kind = "Primitive" -> Ok(PrimitiveArm(rust_ty.prim))
      [] rust_ty.kind = "Value" -> Ok(ValueArm(rust_ty))
      [] rust_ty.kind = "Composite" -> CompositeArm(rust_ty.comp, rust_ty.inners)
      [] rust_ty.kind = "Unit" -> Err("IDL types cannot be Unit ()", <<>>)
      [] rust_ty.kind = "Unknown" ->
            Err("Can only convert known types to IDL type. You are using forked Shank. Type: {:?}",
                <<rust_ty>>)

----------------------------------------------------------------------------
(* IdlField::try_from(StructField) and auto_docs.                          *)

StructField(ident, ty, override, attrs) ==
    [ident |-> ident, rust_type |-> ty, type_override |-> override,
     attrs |-> attrs]

\* StructField::type_override()
TypeOverrideOf(f) == f.type_override

\* the identifiers and attribute lists fields are built with
FieldShells ==
    {[ident |-> "token_amount", attrs |-> <<>>],
     [ident |-> "amount", attrs |-> <<"Padding">>]}

\* heck::MixedCase::to_mixed_case (lower camel case), on Idents
ToMixedCase(ident) ==
    CASE ident = "token_amount" -> "tokenAmount"
      [] ident = "amount" -> "amount"

\* Into::<String>::into for a field attribute
AttrString(attr) ==
    CASE attr = "Padding" -> "padding"

Digit(d) ==
    CASE d = 0 -> "0" [] d = 1 -> "1" [] d = 2 -> "2" [] d = 3 -> "3"
      [] d = 4 -> "4" [] d = 5 -> "5" [] d = 6 -> "6" [] d = 7 -> "7"
      [] d = 8 -> "8" [] d = 9 -> "9"

\* Display of an unsigned integer: its decimal digits
RECURSIVE Display(_)
Display(n) ==
    IF n < 10 THEN Digit(n) ELSE Display(n \div 10) \o Digit(n % 10)

\* faulty variant: an empty list instead of no docs
auto_docs_EmptyList(rust_ty) ==
    IF rust_ty.kind = "Composite" /\ rust_ty.comp.c = "Decimal"
    THEN Some(<<"@amount decimals=" \o Display(rust_ty.comp.precision)>>)
    ELSE Some(<<>>)

auto_docs(rust_ty) ==
    IF rust_ty.kind = "Composite" /\ rust_ty.comp.c = "Decimal"
    THEN Some(<<"@amount decimals=" \o Display(rust_ty.comp.precision)>>)
    ELSE None

\* faulty variant: the override ignored
FieldType_DeclaredOnly(f) == TryFrom(f.rust_type)

\* the type slot: the override's translation if there is one
FieldType(f) ==
    LET override_type == TypeOverrideOf(f)
    IN IF override_type.some THEN TryFrom(override_type.v)
       ELSE TryFrom(f.rust_type)

FieldAttrs(f) ==
    LET attrs == [i \in 1..Len(f.attrs) |-> AttrString(f.attrs[i])]
    IN IF attrs = <<>> THEN None ELSE Some(attrs)

IdlFieldTryFrom(f) ==
    LET docs == auto_docs(f.rust_type)
        ty == FieldType(f)
    IN IF ~ty.ok THEN ty
       ELSE Ok([name |-> ToMixedCase(f.ident), ty |-> ty.val,
                attrs |-> FieldAttrs(f), docs |-> docs])

----------------------------------------------------------------------------
(* The state machine.                                                      *)

\* the leaves a composite layer is built around
Elements ==
    {Primitive("U8"), Primitive("U16"), Primitive("USize"), Value("String"),
     Custom("Pubkey"), Custom("Vault"), Unit, Unknown}

\* the descriptors a composite layer adds beside the one it wraps
Siblings == {Primitive("U8"), Unit}

\* the type overrides fields are given
OverrideTypes ==
    {Primitive("U64"), Unit, Custom("Pubkey"),
     Composite([c |-> "Vec"], <<Primitive("U8")>>),
     Composite([c |-> "Decimal", precision |-> 18], <<Primitive("U16")>>)}

Init ==
    /\ rust_type \in Leaves \cup {Composite(k, <<>>) : k \in CompositeKinds}
    /\ type_override = None
    /\ call = None
    /\ result = None

\* sequences of length n over S
SeqsOf(S, n) == [1..n -> S]

\* s with v inserted so that it becomes element i
InsertAt(s, i, v) == SubSeq(s, 1, i - 1) \o <<v>> \o SubSeq(s, i, Len(s))

OverrideNodes == IF type_override.some THEN Nodes(type_override.v) ELSE 0

\* how many nested descriptors a new layer around the declared type may have
Room ==
    IF call.some THEN 0
    ELSE IF Depth(rust_type) + 1 > MaxDepth THEN 0
    ELSE IF rust_type.kind # "Composite" /\ rust_type \notin Elements THEN 0
    ELSE LET used == Nodes(rust_type) + OverrideNodes + 1
         IN IF used > MaxNodes THEN 0
            ELSE IF MaxNodes - used + 1 < MaxInners THEN MaxNodes - used + 1
            ELSE MaxInners

\* The declared type becomes element i of a new composite of the given kind,
\* beside the given siblings.
Wrap(kind, i, sibs) ==
    /\ ~call.some
    /\ Len(sibs) + 1 <= Room
    /\ rust_type' = Composite(kind, InsertAt(sibs, i, rust_type))
    /\ call' = None
    /\ result' = None
    /\ UNCHANGED type_override

\* The field is given a type override.
SetOverride(ty) ==
    /\ ~call.some
    /\ ~type_override.some
    /\ Nodes(rust_type) + Nodes(ty) <= MaxNodes
    /\ type_override' = Some(ty)
    /\ call' = None
    /\ result' = None
    /\ UNCHANGED rust_type

\* IdlType::try_from(rust_type)
Translate ==
    /\ ~call.some
    /\ ~type_override.some
    /\ call' = Some([fn |-> "IdlType::try_from", arg |-> rust_type])
    /\ result' = TryFrom(rust_type)
    /\ UNCHANGED <<rust_type, type_override>>

\* IdlField::try_from(field), for a field with the declared type and override
Derive(ident, attrs) ==
    LET f == StructField(ident, rust_type, type_override, attrs)
    IN /\ ~call.some
       /\ call' = Some([fn |-> "IdlField::try_from", arg |-> f])
       /\ result' = IdlFieldTryFrom(f)
       /\ UNCHANGED <<rust_type, type_override>>

\* The conversions take their argument by value: a descriptor is built first
\* and converted once.
Next ==
    \/ \E n \in 1..Room, kind \in CompositeKinds :
         \E sibs \in SeqsOf(Siblings, n - 1), i \in 1..n : Wrap(kind, i, sibs)
    \/ \E ty \in OverrideTypes : SetOverride(ty)
    \/ Translate
    \/ \E shell \in FieldShells : Derive(shell.ident, shell.attrs)

Spec == Init /\ [][Next]_vars

----------------------------------------------------------------------------
(* Properties.                                                             *)

Translated == call.some /\ call.v.fn = "IdlType::try_from"
Derived == call.some /\ call.v.fn = "IdlField::try_from"

IsComposite(ty, c) == ty.kind = "Composite" /\ ty.comp.c = c

\* C1: translating a decimal composite with exactly one nested descriptor d
\* gives exactly the outcome of translating d (the same node or the same
\* failure), whatever the precision; with zero or with two or more nested
\* descriptors it fails.
C1_DecimalTransparent ==
    (Translated /\ IsComposite(rust_type, "Decimal")) =>
        IF Len(rust_type.inners) = 1
        THEN result = TryFrom(rust_type.inners[1])
        ELSE ~result.ok

\* a decimal around a composite was translated to that composite's node
C1_Witness ==
    /\ Translated
    /\ IsComposite(rust_type, "Decimal")
    /\ rust_type.comp.precision = 18
    /\ Len(rust_type.inners) = 1
    /\ rust_type.inners[1].kind = "Composite"
    /\ result.ok

\* C2: on every record derive returns, docs is ["@amount decimals=p"] when
\* the declared type is the decimal composite of precision p, and absent
\* (never an empty list) otherwise.
C2_DecimalDocs ==
    (Derived /\ result.ok) =>
        IF IsComposite(rust_type, "Decimal")
        THEN /\ rust_type.comp.precision = 0 =>
                    result.val.docs = Some(<<"@amount decimals=0">>)
             /\ rust_type.comp.precision = 18 =>
                    result.val.docs = Some(<<"@amount decimals=18">>)
             /\ rust_type.comp.precision \in {0, 18}
        ELSE result.val.docs = None

\* a record was derived for a declared decimal of precision 18
C2_Witness ==
    /\ Derived
    /\ result.ok
    /\ IsComposite(rust_type, "Decimal")
    /\ rust_type.comp.precision = 18
    /\ result.val.docs = Some(<<"@amount decimals=18">>)

\* C3: with a type override, derive's type slot is the override's
\* translation and derive fails exactly when that translation fails, whether
\* or not the declared type is translatable; without one it is the declared
\* type's translation.  docs is decided by the declared type, not the override.
C3_OverrideDecidesType ==
    Derived =>
        LET expected == IF type_override.some THEN TryFrom(type_override.v)
                        ELSE TryFrom(rust_type)
        IN /\ result.ok <=> expected.ok
           /\ result.ok =>
                /\ result.val.ty = expected.val
                /\ result.val.docs.some <=> IsComposite(rust_type, "Decimal")

\* a record was derived from the override of a field whose declared type, a
\* decimal, does not translate; docs still reports the declared decimal
C3_Witness ==
    /\ Derived
    /\ type_override = Some(Primitive("U64"))
    /\ IsComposite(rust_type, "Decimal")
    /\ ~TryFrom(rust_type).ok
    /\ result.ok
    /\ result.val.ty = Scalar("U64")
    /\ result.val.docs.some

\* C4: a sequence whose element translates to U8 (directly or through a
\* decimal) yields Bytes; an element translating to another node e yields
\* Vec(e); a failing element or no nested descriptor fails.
C4_VecBytes ==
    (Translated /\ IsComposite(rust_type, "Vec")) =>
        IF Len(rust_type.inners) = 0 THEN ~result.ok
        ELSE LET elem == TryFrom(rust_type.inners[1])
             IN IF ~elem.ok THEN ~result.ok
                ELSE IF elem.val = Scalar("U8") THEN result = Ok(Scalar("Bytes"))
                ELSE result = Ok(IdlVec(elem.val))

\* a sequence of decimals over u8 was translated to Bytes
C4_Witness ==
    /\ Translated
    /\ IsComposite(rust_type, "Vec")
    /\ Len(rust_type.inners) >= 1
    /\ IsComposite(rust_type.inners[1], "Decimal")
    /\ result = Ok(Scalar("Bytes"))

\* C5: a tuple with fewer than two nested descriptors fails; with n >= 2
\* that all translate it yields Tuple of exactly n elements, the i-th being
\* the translation of the i-th nested descriptor.
C5_TupleArity ==
    (Translated /\ IsComposite(rust_type, "Tuple")) =>
        LET inners == rust_type.inners
        IN /\ Len(inners) < 2 => ~result.ok
           /\ (Len(inners) >= 2 /\ \A i \in 1..Len(inners) : TryFrom(inners[i]).ok)
                => /\ result.ok
                   /\ result.val.t = "Tuple"
                   /\ Len(result.val.elems) = Len(inners)
                   /\ \A i \in 1..Len(inners) :
                        result.val.elems[i] = TryFrom(inners[i]).val

\* a tuple holding a composite and a different second element was translated
C5_Witness ==
    /\ Translated
    /\ IsComposite(rust_type, "Tuple")
    /\ Len(rust_type.inners) >= 2
    /\ rust_type.inners[1].kind = "Composite"
    /\ result.ok
    /\ result.val.elems[1] # result.val.elems[2]

SingleContainers == {"Array", "Option", "HashSet", "BTreeSet"}
MapContainers == {"HashMap", "BTreeMap"}

\* C6 as stated: array, optional and set composites translate only with
\* exactly one nested descriptor, map composites only with exactly two.
C6_ExactArity ==
    (Translated /\ rust_type.kind = "Composite" /\ result.ok) =>
        /\ rust_type.comp.c \in SingleContainers => Len(rust_type.inners) = 1
        /\ rust_type.comp.c \in MapContainers => Len(rust_type.inners) = 2

\* C6 amended: array, optional and set composites fail without a nested
\* descriptor and map composites with fewer than two; nested descriptors
\* beyond the first (the first two for maps) are ignored, so with enough of
\* them the translation succeeds exactly when the first (first two) translate.
C6_MinimumArity ==
    (Translated /\ rust_type.kind = "Composite") =>
        LET inners == rust_type.inners
        IN /\ rust_type.comp.c \in SingleContainers =>
                IF Len(inners) < 1 THEN ~result.ok
                ELSE result.ok <=> TryFrom(inners[1]).ok
           /\ rust_type.comp.c \in MapContainers =>
                IF Len(inners) < 2 THEN ~result.ok
                ELSE result.ok <=>
                        (TryFrom(inners[1]).ok /\ TryFrom(inners[2]).ok)

\* a map with three nested descriptors was translated
C6_Witness ==
    /\ Translated
    /\ rust_type.kind = "Composite"
    /\ rust_type.comp.c \in MapContainers
    /\ Len(rust_type.inners) = 3
    /\ result.ok

\* some descriptor nested in ty, at any depth, fails to translate
RECURSIVE SomeNestedFails(_)
SomeNestedFails(ty) ==
    /\ ty.kind = "Composite"
    /\ \E i \in 1..Len(ty.inners) :
         ~TryFrom(ty.inners[i]).ok \/ SomeNestedFails(ty.inners[i])

\* the nested descriptors a composite's rule translates
Translates(ty) ==
    IF ty.comp.c \in SingleContainers \cup {"Vec"} THEN {1} \cap (1..Len(ty.inners))
    ELSE IF ty.comp.c \in MapContainers THEN {1, 2} \cap (1..Len(ty.inners))
    ELSE 1..Len(ty.inners)

\* some descriptor that the rules reach inside ty, at any depth, fails
RECURSIVE SomeTranslatedFails(_)
SomeTranslatedFails(ty) ==
    /\ ty.kind = "Composite"
    /\ \E i \in Translates(ty) :
         ~TryFrom(ty.inners[i]).ok \/ SomeTranslatedFails(ty.inners[i])

\* C7 as stated: if any descriptor nested in a composite, at any depth,
\* fails to translate, the composite fails to translate.
C7_NoPartialResults ==
    (Translated /\ SomeNestedFails(rust_type)) => ~result.ok

\* C7 amended: if a nested descriptor that the composite's rule translates
\* (the first of a sequence, array, optional or set, the first two of a map,
\* all of a tuple, the one of a decimal), at any depth, fails to translate,
\* the composite fails; descriptors beyond those are never translated.
C7_NoPartialResultsTranslated ==
    (Translated /\ SomeTranslatedFails(rust_type)) => ~result.ok

\* a failure two layers down, in second position, failed the whole translation
C7_Witness ==
    /\ Translated
    /\ rust_type.kind = "Composite"
    /\ Len(rust_type.inners) >= 1
    /\ TryFrom(rust_type.inners[1]).ok
    /\ \E i \in Translates(rust_type) :
         /\ rust_type.inners[i].kind = "Composite"
         /\ Len(rust_type.inners[i].inners) >= 1
         /\ ~TryFrom(rust_type.inners[i].inners[1]).ok
    /\ ~result.ok

\* C8: every primitive translates to the scalar of its width and
\* signedness, USize to U64; no two primitives other than USize and U64
\* share a scalar.
C8_Primitives ==
    (Translated /\ rust_type.kind = "Primitive") =>
        /\ result = Ok(Scalar(IF rust_type.prim = "USize" THEN "U64"
                              ELSE rust_type.prim))
        /\ \A q \in Primitives \ {rust_type.prim} :
             PrimitiveArm(q) = result.val => {rust_type.prim, q} = {"USize", "U64"}

\* the pointer-sized integer was translated
C8_Witness ==
    /\ Translated
    /\ rust_type = Primitive("USize")
    /\ result = Ok(Scalar("U64"))

\* C9: a named value yields PublicKey exactly when its name is "Pubkey",
\* any other name n yields Defined(n); the textual values yield String;
\* none of these fails.
C9_NamedValues ==
    (Translated /\ rust_type.kind = "Value") =>
        /\ result.ok
        /\ rust_type.val = "Custom" =>
             /\ result.val = Scalar("PublicKey") <=> rust_type.name = "Pubkey"
             /\ rust_type.name # "Pubkey" => result.val = Defined(rust_type.name)
        /\ rust_type.val # "Custom" => result.val = Scalar("String")

\* a name differing from the alias only in case was translated
C9_Witness ==
    /\ Translated
    /\ rust_type = Custom("pubkey")
    /\ result = Ok(Defined("pubkey"))

\* C10: an array of length n whose element translates to e yields
\* Array(e, n), also for e = U8: an array of u8 is never Bytes.
C10_ArrayKeepsU8 ==
    (Translated /\ IsComposite(rust_type, "Array") /\ Len(rust_type.inners) >= 1) =>
        LET elem == TryFrom(rust_type.inners[1])
        IN elem.ok =>
             /\ result = Ok(IdlArray(elem.val, rust_type.comp.size))
             /\ result.val # Scalar("Bytes")

\* an array of five u8 was translated
C10_Witness ==
    /\ Translated
    /\ rust_type = Composite([c |-> "Array", size |-> 5], <<Primitive("U8")>>)
    /\ result = Ok(IdlArray(Scalar("U8"), 5))

====
